---------------------------- MODULE Spec2Model ----------------------------
(***************************************************************************)
(* Model of mpc1000/mpc1k.py: the Akai MPC 1000 program codec.             *)
(*                                                                         *)
(* Python values are modelled as tagged records (an int or a str), bytes   *)
(* as integers 0..255, byte strings as sequences of bytes.  A Python       *)
(* object is a function from attribute names to values (its __dict__), so  *)
(* that an attribute that was never assigned is simply absent.             *)
(***************************************************************************)
EXTENDS Integers, Sequences, FiniteSets, TLC

VARIABLES pgm, prev, last, nops, accepted

vars == <<pgm, prev, last, nops, accepted>>

(***************************************************************************)
(* Bounds of the model.  The source fixes the number of pads at 64; the    *)
(* model runs the same code over NumPads pads.  MaxOps bounds the number   *)
(* of calls after construction.                                            *)
(***************************************************************************)
NumPads == 2

MaxOps == 1

(***************************************************************************)
(* Python values: an int is a record with the field n, a str a record      *)
(* with the field s (its bytes).                                           *)
(***************************************************************************)
PyInt(n) == [n |-> n]

PyStr(s) == [s |-> s]

IsInt(v) == "n" \in DOMAIN v

IsStr(v) == "s" \in DOMAIN v

\* Results of a call: a value, or a raised exception.
Ok(v) == [ok |-> TRUE, val |-> v, err |-> ""]

Raise(e, v) == [ok |-> FALSE, val |-> v, err |-> e]

Min(a, b) == IF a < b THEN a ELSE b

\* data[a:b] of a Python sequence (0-based, end exclusive, clamped).
Slice(data, a, b) == SubSeq(data, a + 1, Min(b, Len(data)))

\* data[a:]
SliceFrom(data, a) == SubSeq(data, a + 1, Len(data))

Zeros(n) == [i \in 1..n |-> 0]

\* setattr(self, name, val) on the object's __dict__
SetAttr(self, name, val) ==
    IF name \in DOMAIN self THEN [self EXCEPT ![name] = val] ELSE (name :> val) @@ self

HasAttr(self, name) == name \in DOMAIN self

(***************************************************************************)
(* int(value) and str(value)                                               *)
(***************************************************************************)
IsDigit(c) == c >= 48 /\ c <= 57

RECURSIVE StripLeft(_)
StripLeft(s) == IF s # <<>> /\ Head(s) = 32 THEN StripLeft(Tail(s)) ELSE s

RECURSIVE StripRight(_)
StripRight(s) ==
    IF s # <<>> /\ s[Len(s)] = 32 THEN StripRight(SubSeq(s, 1, Len(s) - 1)) ELSE s

RECURSIVE DigitsValue(_)
DigitsValue(s) ==
    IF s = <<>> THEN 0 ELSE 10 * DigitsValue(SubSeq(s, 1, Len(s) - 1)) + (s[Len(s)] - 48)

\* the value of a literal without its sign: decimal digits, at least one
ParseDigits(d) ==
    IF d # <<>> /\ \A i \in 1..Len(d) : IsDigit(d[i])
    THEN Ok(DigitsValue(d))
    ELSE Raise("ValueError: invalid literal for int()", 0)

Negate(r) == IF r.ok THEN Ok(0 - r.val) ELSE r

\* the value of a literal with an optional sign
ParseInt(t) ==
    IF t # <<>> /\ Head(t) = 45 THEN Negate(ParseDigits(Tail(t)))
    ELSE IF t # <<>> /\ Head(t) = 43 THEN ParseDigits(Tail(t))
    ELSE ParseDigits(t)

\* int(value) (ToInt): an int is returned as is; a str is parsed as a decimal literal
\* with optional sign and surrounding blanks, ValueError otherwise.
ToInt(value) ==
    IF IsInt(value) THEN Ok(value.n) ELSE ParseInt(StripRight(StripLeft(value.s)))

RECURSIVE NatDigits(_)
NatDigits(n) == IF n < 10 THEN <<48 + n>> ELSE NatDigits(n \div 10) \o <<48 + (n % 10)>>

\* str(value): the bytes of a str, the decimal digits of an int.
Str(value) ==
    IF IsStr(value) THEN value.s
    ELSE IF value.n < 0 THEN <<45>> \o NatDigits(0 - value.n) ELSE NatDigits(value.n)

(***************************************************************************)
(* Python 2 ordering of mixed operands: numbers order before strings.      *)
(***************************************************************************)
RECURSIVE SeqLess(_, _)
SeqLess(a, b) ==
    IF b = <<>> THEN FALSE
    ELSE IF a = <<>> THEN TRUE
    ELSE IF Head(a) # Head(b) THEN Head(a) < Head(b)
    ELSE SeqLess(Tail(a), Tail(b))

\* a < b
PyLess(a, b) ==
    IF IsInt(a) /\ IsInt(b) THEN a.n < b.n
    ELSE IF IsInt(a) THEN TRUE
    ELSE IF IsInt(b) THEN FALSE
    ELSE SeqLess(a.s, b.s)

\* a > b
PyGreater(a, b) == PyLess(b, a)

(***************************************************************************)
(* The struct module: little-endian, standard sizes, no alignment.  A      *)
(* format is a sequence of items [c |-> code, n |-> count]; a count other  *)
(* than 1 is kept only for "s" (one string of n bytes) and "x" (n pad      *)
(* bytes), a repeated integer code is written out with Rep.                *)
(***************************************************************************)
It(code, count) == [c |-> code, n |-> count]

Rep(count, code) == [i \in 1..count |-> It(code, 1)]

ItemSize(it) ==
    IF it.c \in {"s", "x"} THEN it.n ELSE IF it.c \in {"h", "H"} THEN 2 ELSE 1

\* size of the items lo..hi (summed by halves, which keeps the evaluation shallow)
RECURSIVE SizeRange(_, _, _)
SizeRange(fmt, lo, hi) ==
    IF lo > hi THEN 0
    ELSE IF lo = hi THEN ItemSize(fmt[lo])
    ELSE LET mid == (lo + hi) \div 2
         IN  SizeRange(fmt, lo, mid) + SizeRange(fmt, mid + 1, hi)

\* offset of item k: the sizes of the items before it
OffsetOf(fmt, k) == SizeRange(fmt, 1, k - 1)

\* struct.calcsize(format)
calcsize(fmt) == SizeRange(fmt, 1, Len(fmt))

\* A format compiled once, as struct keeps it: the size, the offset of every
\* item, the items that take an argument (all but padding) in order, for every
\* item the number of the argument it takes, and for every byte of the record
\* the item it belongs to.
Struct(fmt) ==
    LET off == [k \in 1..Len(fmt) |-> OffsetOf(fmt, k)]
        size == calcsize(fmt)
    IN  [ fmt |-> fmt,
          size |-> size,
          off |-> off,
          args |-> SelectSeq([k \in 1..Len(fmt) |-> k], LAMBDA k : fmt[k].c # "x"),
          arg |-> [k \in 1..Len(fmt) |-> Cardinality({i \in 1..k : fmt[i].c # "x"})],
          item |-> [p \in 1..size |->
                       CHOOSE k \in 1..Len(fmt) : off[k] < p /\ p <= off[k] + ItemSize(fmt[k])] ]

\* one item decoded from the bytes at data[off+1 ..]
DecodeItem(it, data, off) ==
    CASE it.c = "B" -> PyInt(data[off + 1])
      [] it.c = "b" -> PyInt(IF data[off + 1] >= 128 THEN data[off + 1] - 256 ELSE data[off + 1])
      [] it.c = "H" -> PyInt(data[off + 1] + 256 * data[off + 2])
      [] it.c = "h" -> LET u == data[off + 1] + 256 * data[off + 2]
                       IN  PyInt(IF u >= 32768 THEN u - 65536 ELSE u)
      [] it.c = "s" -> PyStr(SubSeq(data, off + 1, off + it.n))

\* struct.unpack(format, data): the data must be exactly calcsize bytes long.
StructUnpack(st, data) ==
    IF Len(data) # st.size THEN Raise("struct.error", <<>>)
    ELSE Ok([a \in 1..Len(st.args) |->
                DecodeItem(st.fmt[st.args[a]], data, st.off[st.args[a]])])

\* the argument ranges struct.pack accepts
ItemAccepts(it, v) ==
    CASE it.c = "B" -> IsInt(v) /\ v.n >= 0 /\ v.n <= 255
      [] it.c = "b" -> IsInt(v) /\ v.n >= -128 /\ v.n <= 127
      [] it.c = "H" -> IsInt(v) /\ v.n >= 0 /\ v.n <= 65535
      [] it.c = "h" -> IsInt(v) /\ v.n >= -32768 /\ v.n <= 32767
      [] it.c = "s" -> IsStr(v)

\* EncodeByte with the two bytes of "h" and "H" in big-endian order
EncodeByteBigEndian(it, v, q) ==
    CASE it.c = "B" -> v.n
      [] it.c = "b" -> v.n % 256
      [] it.c = "H" -> IF q = 2 THEN v.n % 256 ELSE v.n \div 256
      [] it.c = "h" -> IF q = 2 THEN (v.n % 65536) % 256 ELSE (v.n % 65536) \div 256
      [] it.c = "s" -> IF q <= Len(v.s) THEN v.s[q] ELSE 0
      [] it.c = "x" -> 0

\* byte q (1-based) of the encoding of v as item it
EncodeByte(it, v, q) ==
    CASE it.c = "B" -> v.n
      [] it.c = "b" -> v.n % 256
      [] it.c = "H" -> IF q = 1 THEN v.n % 256 ELSE v.n \div 256
      [] it.c = "h" -> IF q = 1 THEN (v.n % 65536) % 256 ELSE (v.n % 65536) \div 256
      [] it.c = "s" -> IF q <= Len(v.s) THEN v.s[q] ELSE 0
      [] it.c = "x" -> 0

\* struct.pack(format, *vals)
StructPack(st, vals) ==
    IF \/ Len(vals) # Len(st.args)
       \/ \E a \in 1..Len(st.args) : ~ItemAccepts(st.fmt[st.args[a]], vals[a])
    THEN Raise("struct.error", <<>>)
    ELSE Ok([p \in 1..st.size |->
                LET k == st.item[p]
                IN  IF st.fmt[k].c = "x" THEN 0
                    ELSE EncodeByte(st.fmt[k], vals[st.arg[k]], p - st.off[k])])

(***************************************************************************)
(* Validators.  A validator is described by a record; Validate applies it. *)
(***************************************************************************)
\* the range test on r = int(value)
CheckRange(r, value, lower, upper) ==
    IF ~r.ok THEN Raise(r.err, value)
    ELSE IF r.val < lower \/ r.val > upper THEN Raise("ValueError: out of range", value)
    ELSE Ok(PyInt(r.val))

\* int_in_range that lets the value just above upper through
int_in_range_loose(value, lower, upper) == CheckRange(ToInt(value), value, lower, upper + 1)

\* int_in_range(value, lower, upper), and the closure int_in_range_validator returns
int_in_range(value, lower, upper) == CheckRange(ToInt(value), value, lower, upper)

valid_name_characters ==
    (97..122) \cup (65..90) \cup (48..57)
    \cup {33, 35, 36, 37, 38, 39, 40, 41, 45, 64, 95, 123, 125, 32, 0}

NameLen == 16

\* the tests of sample_name_validator on s = str(value)
CheckName(s, value) ==
    IF Len(s) > NameLen THEN Raise("ValueError: string too long", value)
    ELSE IF \E i \in 1..Len(s) : s[i] \notin valid_name_characters
         THEN Raise("ValueError: invalid character", value)
    ELSE Ok(PyStr(s))

PadName(r) == IF r.ok THEN Ok(PyStr(r.val.s \o Zeros(NameLen - Len(r.val.s)))) ELSE r

\* sample_name_validator without the check of the characters
sample_name_validator_anychar(value) ==
    IF Len(Str(value)) > NameLen THEN Raise("ValueError: string too long", value)
    ELSE Ok(PyStr(Str(value)))

\* sample_name_validator that pads what it returns to NameLen bytes
sample_name_validator_padded(value) == PadName(CheckName(Str(value), value))

sample_name_validator(value) == CheckName(Str(value), value)

pass_validator(value) == Ok(value)

int_in_range_validator(lower, upper) == [kind |-> "range", lower |-> lower, upper |-> upper]

NameValidator == [kind |-> "name", lower |-> 0, upper |-> 0]

PassValidator == [kind |-> "pass", lower |-> 0, upper |-> 0]

Validate(validator, value) ==
    CASE validator.kind = "range" -> int_in_range(value, validator.lower, validator.upper)
      [] validator.kind = "name" -> sample_name_validator(value)
      [] validator.kind = "pass" -> pass_validator(value)

Attr(name, validator) == [name |-> name, validator |-> validator]

\* setattr(self, '_' + name, val) with the validated value r, if there is one
Store(self, name, r) == IF r.ok THEN Ok(SetAttr(self, name, r.val)) ELSE Raise(r.err, self)

\* a setter that stores without validating
setter_unchecked(self, name, validator, val) == Ok(SetAttr(self, name, val))

\* the property setter built by setter_factory: validate, then store
setter(self, name, validator, val) == Store(self, name, Validate(validator, val))

(***************************************************************************)
(* class_factory: unpack and pack of a record class with format and attrs. *)
(***************************************************************************)
\* the loop of unpack from value i on; r is the object so far, or the exception
RECURSIVE SetAttrsFrom(_, _, _, _)
SetAttrsFrom(r, attrs, vals, i) ==
    IF ~r.ok \/ i > Len(vals) THEN r
    ELSE SetAttrsFrom(setter(r.val, attrs[i].name, attrs[i].validator, vals[i]),
                      attrs, vals, i + 1)

UnpackInto(self, attrs, unpacked_data) ==
    IF ~unpacked_data.ok THEN Raise(unpacked_data.err, self)
    ELSE SetAttrsFrom(Ok(self), attrs, unpacked_data.val, 1)

\* unpack handing struct the whole of data_str instead of its first size bytes
unpack_whole(self, format, attrs, data_str) ==
    UnpackInto(self, attrs, StructUnpack(format, data_str))

\* unpack(self, data_str): on an exception self keeps the attributes set so far
unpack(self, format, attrs, data_str) ==
    UnpackInto(self, attrs, StructUnpack(format, Slice(data_str, 0, format.size)))

\* pack(self)
pack(self, format, attrs) ==
    StructPack(format, [i \in 1..Len(attrs) |-> self[attrs[i].name]])

(***************************************************************************)
(* Sample                                                                  *)
(***************************************************************************)
SampleFormat ==
    Struct(<< It("s", 16), It("x", 1), It("B", 1), It("B", 1), It("B", 1), It("h", 1),
       It("B", 1), It("x", 1) >>)

SampleAttrs ==
    << Attr("name", NameValidator),
       Attr("level", int_in_range_validator(0, 100)),
       Attr("range_upper", int_in_range_validator(0, 127)),
       Attr("range_lower", int_in_range_validator(0, 127)),
       Attr("tuning", int_in_range_validator(-3600, 3600)),
       Attr("play_mode", int_in_range_validator(0, 1)) >>

SampleSize == SampleFormat.size

\* a new object, before __init__ has assigned anything
NewObject == [a \in {} |-> 0]

\* Sample(data)
sample_init(data) == unpack(NewObject, SampleFormat, SampleAttrs, data)

\* Sample.data
sample_data(self) == pack(self, SampleFormat, SampleAttrs)

(***************************************************************************)
(* Pad                                                                     *)
(***************************************************************************)
PadFormat ==
    Struct(<< It("x", 2), It("b", 1), It("b", 1), It("x", 1), It("B", 1), It("B", 1),
       It("B", 1), It("B", 1), It("x", 2), It("B", 1), It("x", 5), It("b", 1),
       It("B", 1), It("B", 1), It("x", 4), It("B", 1), It("B", 1), It("B", 1),
       It("B", 1), It("x", 4), It("B", 1), It("x", 14), It("B", 1), It("B", 1),
       It("B", 1), It("B", 1), It("B", 1), It("B", 1), It("x", 15) >>)

PadAttrs ==
    << Attr("voice_overlap", int_in_range_validator(0, 1)),
       Attr("mute_group", int_in_range_validator(0, 32)),
       Attr("unknown", PassValidator),
       Attr("attack", int_in_range_validator(0, 100)),
       Attr("decay", int_in_range_validator(0, 100)),
       Attr("decay_mode", int_in_range_validator(0, 1)),
       Attr("vel_to_level", int_in_range_validator(0, 100)),
       Attr("filter_1_type", int_in_range_validator(0, 3)),
       Attr("filter_1_freq", int_in_range_validator(0, 100)),
       Attr("filter_1_res", int_in_range_validator(0, 100)),
       Attr("filter_1_vel_to_freq", int_in_range_validator(0, 100)),
       Attr("filter_2_type", int_in_range_validator(0, 4)),
       Attr("filter_2_freq", int_in_range_validator(0, 100)),
       Attr("filter_2_res", int_in_range_validator(0, 100)),
       Attr("filter_2_vel_to_freq", int_in_range_validator(0, 100)),
       Attr("mixer_level", int_in_range_validator(0, 100)),
       Attr("mixer_pan", int_in_range_validator(0, 100)),
       Attr("output", int_in_range_validator(0, 2)),
       Attr("fx_send", int_in_range_validator(0, 2)),
       Attr("fx_send_level", int_in_range_validator(0, 100)),
       Attr("filter_attenuation", int_in_range_validator(0, 2)) >>

PadBodySize == PadFormat.size

SamplesPerPad == 4

\* list.append(x) where the list and x are results of calls
AppendTo(list, x) ==
    IF x.ok THEN Ok(Append(list.val, x.val)) ELSE Raise(x.err, list.val)

\* the loop of pad_init from sample i on; sample_list is the list so far
RECURSIVE PadSamplesFrom(_, _, _)
PadSamplesFrom(data, i, sample_list) ==
    IF ~sample_list.ok \/ i >= SamplesPerPad THEN sample_list
    ELSE PadSamplesFrom(data, i + 1,
                        AppendTo(sample_list, sample_init(SliceFrom(data, i * SampleSize))))

PadUnpack(data, sample_list) ==
    IF ~sample_list.ok
    THEN Raise(sample_list.err, SetAttr(NewObject, "sample_list", sample_list.val))
    ELSE unpack(SetAttr(NewObject, "sample_list", sample_list.val), PadFormat, PadAttrs,
                SliceFrom(data, SamplesPerPad * SampleSize))

\* Pad(data)
pad_init(data) == PadUnpack(data, PadSamplesFrom(data, 0, Ok(<<>>)))

\* ''.join of the data of objs, or the first exception
RECURSIVE JoinData(_, _, _)
JoinData(objs, i, acc) ==
    IF i > Len(objs) THEN Ok(acc)
    ELSE IF objs[i].ok THEN JoinData(objs, i + 1, acc \o objs[i].val)
    ELSE objs[i]

PadJoin(pad_data_str, sample_str_list) ==
    IF ~pad_data_str.ok THEN pad_data_str
    ELSE IF ~sample_str_list.ok THEN sample_str_list
    ELSE Ok(sample_str_list.val \o pad_data_str.val)

\* Pad.data
pad_data(self) ==
    PadJoin(pack(self, PadFormat, PadAttrs),
            JoinData([j \in 1..Len(self.sample_list) |-> sample_data(self.sample_list[j])],
                     1, <<>>))

\* The objects after their data was read.  Sample.data is pack: it reads the
\* attributes.  pad_data appends pad_data_str to data_str_list, which is the
\* list the comprehension over self.sample_list built, not self.sample_list.
sample_after_data(self) == self

\* pad_data with data_str_list bound to self.sample_list itself
pad_after_data_aliased(self) ==
    SetAttr(self, "sample_list", Append(self.sample_list, PyStr(pack(self, PadFormat, PadAttrs).val)))

pad_after_data(self) ==
    SetAttr(self, "sample_list",
            [j \in 1..Len(self.sample_list) |-> sample_after_data(self.sample_list[j])])

(***************************************************************************)
(* Program                                                                 *)
(***************************************************************************)
NumNotes == 128

NoPad == 64

header_size == 24

pad_data_size == 164

program_data_size == 44

HeaderFormat == Struct(<< It("H", 1), It("x", 2), It("s", 16), It("x", 4) >>)

PadMidiNoteFormat == Struct(Rep(NumPads, "B"))

MidiNotePadFormat == Struct(Rep(NumNotes, "B"))

MidiAndSlidersFormat ==
    Struct(<<
       It("B", 1), It("B", 1), It("B", 1), It("B", 1), It("b", 1), It("b", 1),
       It("b", 1), It("b", 1), It("B", 1), It("B", 1), It("B", 1), It("B", 1),
       It("B", 1), It("B", 1), It("B", 1), It("B", 1), It("B", 1), It("b", 1),
       It("b", 1), It("b", 1), It("b", 1), It("B", 1), It("B", 1), It("B", 1),
       It("B", 1), It("B", 1), It("B", 1), It("x", 17)
    >>)

\* The properties of Program in the order load assigns them and data packs them.
\* kind "range": a plain int_in_range setter; "low"/"high": a setter of a range
\* pair, partner being the other member of the pair.
ProgramAttrs ==
    <<
       [name |-> "midi_program_change", kind |-> "range", lower |-> 0, upper |-> 128, partner |-> ""],
       [name |-> "slider_1_pad", kind |-> "range", lower |-> 0, upper |-> 63, partner |-> ""],
       [name |-> "slider_1_unknown", kind |-> "range", lower |-> 0, upper |-> 255, partner |-> ""],
       [name |-> "slider_1_parameter", kind |-> "range", lower |-> 0, upper |-> 4, partner |-> ""],
       [name |-> "slider_1_tune_low", kind |-> "low", lower |-> -120, upper |-> 120, partner |-> "slider_1_tune_high"],
       [name |-> "slider_1_tune_high", kind |-> "high", lower |-> -120, upper |-> 120, partner |-> "slider_1_tune_low"],
       [name |-> "slider_1_filter_low", kind |-> "low", lower |-> -50, upper |-> 50, partner |-> "slider_1_filter_high"],
       [name |-> "slider_1_filter_high", kind |-> "high", lower |-> -50, upper |-> 50, partner |-> "slider_1_filter_low"],
       [name |-> "slider_1_layer_low", kind |-> "low", lower |-> 0, upper |-> 127, partner |-> "slider_1_layer_high"],
       [name |-> "slider_1_layer_high", kind |-> "high", lower |-> 0, upper |-> 127, partner |-> "slider_1_layer_low"],
       [name |-> "slider_1_attack_low", kind |-> "low", lower |-> 0, upper |-> 100, partner |-> "slider_1_attack_high"],
       [name |-> "slider_1_attack_high", kind |-> "high", lower |-> 0, upper |-> 100, partner |-> "slider_1_attack_low"],
       [name |-> "slider_1_decay_low", kind |-> "low", lower |-> 0, upper |-> 100, partner |-> "slider_1_decay_high"],
       [name |-> "slider_1_decay_high", kind |-> "high", lower |-> 0, upper |-> 100, partner |-> "slider_1_decay_low"],
       [name |-> "slider_2_pad", kind |-> "range", lower |-> 0, upper |-> 63, partner |-> ""],
       [name |-> "slider_2_unknown", kind |-> "range", lower |-> 0, upper |-> 255, partner |-> ""],
       [name |-> "slider_2_parameter", kind |-> "range", lower |-> 0, upper |-> 4, partner |-> ""],
       [name |-> "slider_2_tune_low", kind |-> "low", lower |-> -120, upper |-> 120, partner |-> "slider_2_tune_high"],
       [name |-> "slider_2_tune_high", kind |-> "high", lower |-> -120, upper |-> 120, partner |-> "slider_2_tune_low"],
       [name |-> "slider_2_filter_low", kind |-> "low", lower |-> -50, upper |-> 50, partner |-> "slider_2_filter_high"],
       [name |-> "slider_2_filter_high", kind |-> "high", lower |-> -50, upper |-> 50, partner |-> "slider_2_filter_low"],
       [name |-> "slider_2_layer_low", kind |-> "low", lower |-> 0, upper |-> 127, partner |-> "slider_2_layer_high"],
       [name |-> "slider_2_layer_high", kind |-> "high", lower |-> 0, upper |-> 127, partner |-> "slider_2_layer_low"],
       [name |-> "slider_2_attack_low", kind |-> "low", lower |-> 0, upper |-> 100, partner |-> "slider_2_attack_high"],
       [name |-> "slider_2_attack_high", kind |-> "high", lower |-> 0, upper |-> 100, partner |-> "slider_2_attack_low"],
       [name |-> "slider_2_decay_low", kind |-> "low", lower |-> 0, upper |-> 100, partner |-> "slider_2_decay_high"],
       [name |-> "slider_2_decay_high", kind |-> "high", lower |-> 0, upper |-> 100, partner |-> "slider_2_decay_low"]
    >>

\* Program.__init__, lines 302-321: the range pairs start at their widest.
ProgramNew ==
    [a \in {ProgramAttrs[i].name : i \in {j \in 1..Len(ProgramAttrs) :
                                          ProgramAttrs[j].kind # "range"}} |->
        LET d == CHOOSE i \in 1..Len(ProgramAttrs) : ProgramAttrs[i].name = a
        IN  IF ProgramAttrs[d].kind = "low" THEN PyInt(ProgramAttrs[d].lower)
            ELSE PyInt(ProgramAttrs[d].upper)]

\* a setter of a range pair that leaves the partner alone
pair_setter_alone(self, d, value) ==
    Store(self, d.name, int_in_range(value, d.lower, d.upper))

\* Partner with the setters of slider 2 naming the partners of slider 1
PartnerOfSlider1(d) ==
    ProgramAttrs[CHOOSE i \in 1..Len(ProgramAttrs) :
                    \E k \in 1..Len(ProgramAttrs) :
                        /\ ProgramAttrs[k].name = d.partner
                        /\ i = IF k > 14 THEN k - 13 ELSE k]

\* the descriptor of the other member of the pair of d
Partner(d) ==
    ProgramAttrs[CHOOSE i \in 1..Len(ProgramAttrs) : ProgramAttrs[i].name = d.partner]

\* the test of a pair setter on its argument: value > high in a low setter,
\* value < low in a high setter
Crossed(d, value, other) ==
    IF d.kind = "low" THEN PyGreater(value, other) ELSE PyLess(value, other)

\* The setters of a range pair: store the validated value, then move the
\* partner through its own setter when the value passed the other bound.
RECURSIVE pair_setter(_, _, _)
RECURSIVE PairStore(_, _, _)
PairStore(r, d, value) ==
    IF ~r.ok THEN r
    ELSE IF Crossed(d, value, r.val[d.partner]) THEN pair_setter(r.val, Partner(d), value)
    ELSE r

pair_setter(self, d, value) ==
    PairStore(Store(self, d.name, int_in_range(value, d.lower, d.upper)), d, value)

\* a property setter of Program
program_setter(self, d, value) ==
    IF d.kind = "range"
    THEN Store(self, d.name, int_in_range(value, d.lower, d.upper))
    ELSE pair_setter(self, d, value)

\* the loop of load over the pads from pad i on; pad_list is the list so far
RECURSIVE LoadPadsFrom(_, _, _)
LoadPadsFrom(data_str, i, pad_list) ==
    IF ~pad_list.ok \/ i >= NumPads THEN pad_list
    ELSE LoadPadsFrom(data_str, i + 1,
             AppendTo(pad_list,
                      pad_init(Slice(data_str, header_size + i * pad_data_size,
                                     header_size + (i + 1) * pad_data_size))))

\* the property assignments of load made from the last property to the first,
\* so that the high member of a pair is assigned before its low member
RECURSIVE LoadSlidersDown(_, _, _)
LoadSlidersDown(r, unpacked_data, i) ==
    IF ~r.ok \/ i < 1 THEN r
    ELSE LoadSlidersDown(program_setter(r.val, ProgramAttrs[i], unpacked_data[i]),
                         unpacked_data, i - 1)

LoadSlidersHighFirst(r, unpacked_data, i) ==
    LoadSlidersDown(r, unpacked_data, Len(ProgramAttrs) + 1 - i)

\* the property assignments of load from property i on
RECURSIVE LoadSlidersFrom(_, _, _)
LoadSlidersFrom(r, unpacked_data, i) ==
    IF ~r.ok \/ i > Len(ProgramAttrs) THEN r
    ELSE LoadSlidersFrom(program_setter(r.val, ProgramAttrs[i], unpacked_data[i]),
                         unpacked_data, i + 1)

\* load from the stored note -> pad table on: it is unpacked and ignored
LoadSliders(self, midi_note_pad_list, unpacked_data) ==
    IF ~midi_note_pad_list.ok THEN Raise(midi_note_pad_list.err, self)
    ELSE IF ~unpacked_data.ok THEN Raise(unpacked_data.err, self)
    ELSE LoadSlidersFrom(Ok(self), unpacked_data.val, 1)

\* load from the pad MIDI notes on
LoadPadMidiNotes(self, data_str, pad_midi_note_list) ==
    IF ~pad_midi_note_list.ok THEN Raise(pad_midi_note_list.err, self)
    ELSE LoadSliders(
             SetAttr(self, "pad_list",
                     [i \in 1..NumPads |->
                         SetAttr(self.pad_list[i], "midi_note", pad_midi_note_list.val[i])]),
             StructUnpack(MidiNotePadFormat,
                          Slice(data_str, header_size + NumPads * pad_data_size + NumPads,
                                header_size + NumPads * pad_data_size + NumPads + NumNotes)),
             StructUnpack(MidiAndSlidersFormat,
                          Slice(data_str,
                                header_size + NumPads * pad_data_size + NumPads + NumNotes,
                                header_size + NumPads * pad_data_size + NumPads + NumNotes
                                   + program_data_size)))

\* load from the pads on
LoadPads(self, data_str, pad_list) ==
    IF ~pad_list.ok THEN Raise(pad_list.err, SetAttr(self, "pad_list", pad_list.val))
    ELSE LoadPadMidiNotes(
             SetAttr(self, "pad_list", pad_list.val), data_str,
             StructUnpack(PadMidiNoteFormat,
                          Slice(data_str, header_size + NumPads * pad_data_size,
                                header_size + NumPads * pad_data_size + NumPads)))

\* load from the header on
LoadHeader(self, data_str, header) ==
    IF ~header.ok THEN Raise(header.err, self)
    ELSE LoadPads(SetAttr(SetAttr(self, "file_size", header.val[1]),
                          "file_type", header.val[2]),
                  data_str, LoadPadsFrom(data_str, 0, Ok(<<>>)))

\* Program.load(data_str); on an exception self keeps what was assigned so far
load(self, data_str) ==
    LoadHeader(self, data_str, StructUnpack(HeaderFormat, Slice(data_str, 0, header_size)))

\* Program(data_str): an empty data_str is replaced by DEFAULT_PGM_DATA (its 64
\* pads; the model's default for its NumPads pads is default_data); the object
\* exists only when load returns
ProgramInit(data_str, default_data) ==
    load(ProgramNew, IF data_str = <<>> THEN default_data ELSE data_str)

\* Program.pad_midi_note_list
pad_midi_note_list(self) ==
    IF \E i \in 1..Len(self.pad_list) : ~HasAttr(self.pad_list[i], "midi_note")
    THEN Raise("AttributeError", <<>>)
    ELSE Ok([i \in 1..Len(self.pad_list) |-> self.pad_list[i].midi_note])

\* mnpl[note] = i of a 128-element list: a negative index counts from the end
RECURSIVE MnplFrom(_, _, _)
MnplFrom(pad_list, i, mnpl) ==
    IF i > Len(pad_list) THEN Ok(mnpl)
    ELSE IF ~HasAttr(pad_list[i], "midi_note") THEN Raise("AttributeError", mnpl)
    ELSE LET note == pad_list[i].midi_note
         IN  IF ~IsInt(note) THEN Raise("TypeError", mnpl)
             ELSE IF note.n >= NumNotes \/ note.n < 0 - NumNotes THEN Raise("IndexError", mnpl)
             ELSE MnplFrom(pad_list, i + 1,
                           [mnpl EXCEPT ![(IF note.n < 0 THEN note.n + NumNotes ELSE note.n) + 1]
                                            = PyInt(i - 1)])

\* midi_note_pad_list in which the lowest pad on a note wins
midi_note_pad_list_first(self) ==
    LET r == MnplFrom(self.pad_list, 1, [n \in 1..NumNotes |-> PyInt(NoPad)])
        On(n) == {i \in 1..Len(self.pad_list) : self.pad_list[i].midi_note.n % NumNotes = n - 1}
    IN  IF ~r.ok THEN r
        ELSE Ok([n \in 1..NumNotes |->
                    IF On(n) = {} THEN PyInt(NoPad)
                    ELSE PyInt((CHOOSE i \in On(n) : \A k \in On(n) : i <= k) - 1)])

\* Program.midi_note_pad_list
midi_note_pad_list(self) == MnplFrom(self.pad_list, 1, [n \in 1..NumNotes |-> PyInt(NoPad)])

\* ProgramJoin without the note -> pad table in the joined string
ProgramJoinNoTable(header_str, pmnl, pad_midi_note_str, mnpl, midi_note_pad_str, midi_and_sliders_str, pad_data_str_list) ==
    IF ~header_str.ok THEN header_str
    ELSE IF ~pmnl.ok THEN pmnl
    ELSE IF ~pad_midi_note_str.ok THEN pad_midi_note_str
    ELSE IF ~mnpl.ok THEN mnpl
    ELSE IF ~midi_note_pad_str.ok THEN midi_note_pad_str
    ELSE IF ~midi_and_sliders_str.ok THEN midi_and_sliders_str
    ELSE IF ~pad_data_str_list.ok THEN pad_data_str_list
    ELSE Ok(header_str.val \o pad_data_str_list.val \o pad_midi_note_str.val
            \o midi_and_sliders_str.val)

\* the strings of Program.data joined, or the first exception in the order in
\* which Program.data computes them
ProgramJoin(header_str, pmnl, pad_midi_note_str, mnpl, midi_note_pad_str, midi_and_sliders_str, pad_data_str_list) ==
    IF ~header_str.ok THEN header_str
    ELSE IF ~pmnl.ok THEN pmnl
    ELSE IF ~pad_midi_note_str.ok THEN pad_midi_note_str
    ELSE IF ~mnpl.ok THEN mnpl
    ELSE IF ~midi_note_pad_str.ok THEN midi_note_pad_str
    ELSE IF ~midi_and_sliders_str.ok THEN midi_and_sliders_str
    ELSE IF ~pad_data_str_list.ok THEN pad_data_str_list
    ELSE Ok(header_str.val \o pad_data_str_list.val \o pad_midi_note_str.val
            \o midi_note_pad_str.val \o midi_and_sliders_str.val)

\* struct.pack(format, *r) of a list r that a property returned
PackList(format, r) == IF r.ok THEN StructPack(format, r.val) ELSE r

\* Program.data
program_data(self) ==
    ProgramJoin(
        StructPack(HeaderFormat, <<self.file_size, self.file_type>>),
        pad_midi_note_list(self),
        PackList(PadMidiNoteFormat, pad_midi_note_list(self)),
        midi_note_pad_list(self),
        PackList(MidiNotePadFormat, midi_note_pad_list(self)),
        StructPack(MidiAndSlidersFormat,
                   [i \in 1..Len(ProgramAttrs) |-> self[ProgramAttrs[i].name]]),
        JoinData([i \in 1..Len(self.pad_list) |-> pad_data(self.pad_list[i])], 1, <<>>))

\* the Program after Program.data: it reads the data of every pad of pad_list
\* into new lists
program_after_data(self) ==
    SetAttr(self, "pad_list",
            [i \in 1..Len(self.pad_list) |-> pad_after_data(self.pad_list[i])])

(***************************************************************************)
(* The built-in default data (DEFAULT_PGM_DATA, decompressed): its header, *)
(* its pad record (all 64 are equal), its pad MIDI notes and its MIDI and  *)
(* slider block.  The model's default buffer holds NumPads of the pads and *)
(* the notes of those pads.                                                *)
(***************************************************************************)
DEFAULT_HEADER_DATA ==
    << 4, 42, 0, 0, 77, 80, 67, 49, 48, 48, 48, 32, 80, 71, 77, 32, 49, 46, 48, 48,
       0, 0, 0, 0 >>

DEFAULT_SAMPLE_DATA == Zeros(16) \o << 0, 70, 0, 127, 0, 0, 0, 0 >>

DEFAULT_PAD_BODY ==
    << 0, 0, 0, 0, 0, 1, 0, 5, 0, 0, 0, 100, 0, 0, 0, 0, 0, 0, 100, 0 >> \o Zeros(6)
    \o << 100 >> \o Zeros(20) \o << 100, 50, 0, 0, 33, 0 >> \o Zeros(15)

DEFAULT_PAD_DATA ==
    DEFAULT_SAMPLE_DATA \o DEFAULT_SAMPLE_DATA \o DEFAULT_SAMPLE_DATA
    \o DEFAULT_SAMPLE_DATA \o DEFAULT_PAD_BODY

DEFAULT_PAD_MIDI_NOTES ==
    <<
       37, 36, 42, 82, 40, 38, 46, 44, 48, 47, 45, 43, 49, 55, 51, 53, 54, 69, 81, 80,
       65, 66, 76, 77, 56, 62, 63, 64, 73, 74, 71, 39, 52, 57, 58, 59, 60, 61, 67, 68,
       70, 72, 75, 78, 79, 35, 41, 50, 83, 84, 85, 86, 87, 88, 89, 90, 91, 92, 93, 94,
       95, 96, 97, 98
    >>

DEFAULT_MIDI_AND_SLIDERS ==
    << 0, 0, 1, 0, 136, 120, 206, 50, 0, 127, 0, 100, 0, 100,
       0, 1, 1, 136, 120, 206, 50, 0, 127, 0, 100, 0, 100 >> \o Zeros(17)

RECURSIVE Times(_, _)
Times(n, s) == IF n = 0 THEN <<>> ELSE s \o Times(n - 1, s)

\* the note -> pad table stored in a file whose pads have the given notes
StoredNotePads(pad_notes) ==
    [n \in 1..NumNotes |->
        IF \E i \in 1..Len(pad_notes) : pad_notes[i] = n - 1
        THEN (CHOOSE i \in 1..Len(pad_notes) :
                 /\ pad_notes[i] = n - 1
                 /\ \A k \in 1..Len(pad_notes) : pad_notes[k] = n - 1 => k <= i) - 1
        ELSE NoPad]

DEFAULT_PGM_DATA ==
    DEFAULT_HEADER_DATA \o Times(NumPads, DEFAULT_PAD_DATA)
    \o SubSeq(DEFAULT_PAD_MIDI_NOTES, 1, NumPads)
    \o StoredNotePads(SubSeq(DEFAULT_PAD_MIDI_NOTES, 1, NumPads))
    \o DEFAULT_MIDI_AND_SLIDERS

program_init(data_str) == ProgramInit(data_str, DEFAULT_PGM_DATA)

(***************************************************************************)
(* Offsets of the file layout, as load computes them.                      *)
(***************************************************************************)
PadOffset(i) == header_size + i * pad_data_size

SampleOffset(i, j) == PadOffset(i) + j * SampleSize

PadBodyOffset(i) == PadOffset(i) + SamplesPerPad * SampleSize

PadMidiNoteOffset == header_size + NumPads * pad_data_size

MidiNotePadOffset == PadMidiNoteOffset + NumPads

ProgramDataOffset == MidiNotePadOffset + NumNotes

ProgramSize == ProgramDataOffset + program_data_size

\* data with the byte at 0-based offset off replaced
Patch(data, off, byte) == [data EXCEPT ![off + 1] = byte]

\* data with every <<offset, byte>> of patches applied
PatchAll(data, patches) ==
    [k \in 1..Len(data) |->
        IF \E p \in 1..Len(patches) : patches[p][1] + 1 = k
        THEN patches[CHOOSE p \in 1..Len(patches) : patches[p][1] + 1 = k][2]
        ELSE data[k]]

(***************************************************************************)
(* The buffers the model loads: the default, edited files that are still   *)
(* valid, and files with one field out of its range.                       *)
(***************************************************************************)
G(k) == ProgramDataOffset + k

\* a valid file: every kind of field away from its default, the range pairs
\* of slider 1 at (mid, mid) and of slider 2 at (lower, mid), and the first
\* pad on the same MIDI note as the last one
EditedData ==
    PatchAll(DEFAULT_PGM_DATA,
      << <<SampleOffset(0, 0), 75>>, <<SampleOffset(0, 0) + 1, 105>>,
         <<SampleOffset(0, 0) + 2, 99>>, <<SampleOffset(0, 0) + 3, 107>>,
         <<SampleOffset(0, 0) + 17, 100>>, <<SampleOffset(0, 0) + 18, 127>>,
         <<SampleOffset(0, 0) + 19, 0>>, <<SampleOffset(0, 0) + 20, 240>>,
         <<SampleOffset(0, 0) + 21, 241>>, <<SampleOffset(0, 0) + 22, 1>>,
         <<SampleOffset(NumPads - 1, 3) + 17, 0>>, <<SampleOffset(NumPads - 1, 3) + 20, 16>>,
         <<SampleOffset(NumPads - 1, 3) + 21, 14>>,
         <<PadBodyOffset(0) + 2, 1>>, <<PadBodyOffset(0) + 3, 32>>,
         <<PadBodyOffset(0) + 5, 255>>, <<PadBodyOffset(0) + 17, 3>>,
         <<PadBodyOffset(0) + 25, 4>>, <<PadBodyOffset(0) + 49, 2>>,
         <<PadMidiNoteOffset, DEFAULT_PAD_MIDI_NOTES[NumPads]>>,
         <<MidiNotePadOffset + DEFAULT_PAD_MIDI_NOTES[1], NoPad>>,
         <<G(0), 128>>, <<G(1), 63>>, <<G(2), 255>>, <<G(3), 4>>,
         <<G(4), 0>>, <<G(5), 0>>, <<G(6), 0>>, <<G(7), 0>>, <<G(8), 63>>, <<G(9), 63>>,
         <<G(10), 50>>, <<G(11), 50>>, <<G(12), 50>>, <<G(13), 50>>,
         <<G(14), 1>>, <<G(15), 0>>, <<G(16), 2>>,
         <<G(17), 136>>, <<G(18), 0>>, <<G(19), 206>>, <<G(20), 0>>, <<G(21), 0>>,
         <<G(22), 63>>, <<G(23), 0>>, <<G(24), 50>>, <<G(25), 0>>, <<G(26), 50>> >>)

\* the default with a note -> pad table that is not the inverse of the pad notes
StaleTableData ==
    PatchAll(DEFAULT_PGM_DATA,
      << <<MidiNotePadOffset, 0>>,
         <<MidiNotePadOffset + DEFAULT_PAD_MIDI_NOTES[1], NoPad>> >>)

\* the default with a padding byte of the first sample set
DirtyPaddingData == Patch(DEFAULT_PGM_DATA, SampleOffset(0, 0) + 16, 7)

\* the default with the first pad on note 200
HighNoteData == Patch(DEFAULT_PGM_DATA, PadMidiNoteOffset, 200)

\* the default with two range pairs stored low above high
CrossedPairData ==
    PatchAll(DEFAULT_PGM_DATA,
      << <<G(4), 50>>, <<G(5), 246>>, <<G(21), 100>>, <<G(22), 20>> >>)

Buffers ==
    << DEFAULT_PGM_DATA,
       EditedData,
       StaleTableData,
       DirtyPaddingData,
       HighNoteData,
       CrossedPairData,
       Patch(DEFAULT_PGM_DATA, SampleOffset(0, 0) + 17, 200),          \* level 200
       Patch(DEFAULT_PGM_DATA, G(4), 127),                             \* tune low 127
       Patch(DEFAULT_PGM_DATA, G(8), 200),                             \* layer low 200
       Patch(DEFAULT_PGM_DATA, G(0), 129),                             \* program change 129
       Patch(DEFAULT_PGM_DATA, PadBodyOffset(NumPads - 1) + 3, 33),    \* mute group 33
       Patch(DEFAULT_PGM_DATA, PadBodyOffset(0) + 2, 255),             \* voice overlap -1
       Patch(DEFAULT_PGM_DATA, SampleOffset(NumPads - 1, 3) + 2, 42)   \* name with "*"
    >>

\* the first k bytes of the default
Truncated(k) == Slice(DEFAULT_PGM_DATA, 0, k)

\* what the model passes as data_str: the buffers, then the default cut to every
\* length below its size
Inputs == Buffers \o [n \in 1..ProgramSize |-> Truncated(n - 1)]

TruncatedInput(k) == Len(Buffers) + 1 + k

\* a cut inside every stage of load: header, first pad, last pad, pad notes,
\* note -> pad table, MIDI and sliders
StageLengths ==
    { header_size - 1, PadOffset(0) + SampleSize + 1, PadBodyOffset(NumPads - 1) + 1,
      PadMidiNoteOffset + 1, MidiNotePadOffset + 1, ProgramSize - 1 }

(***************************************************************************)
(* The values the model passes to the setters.                             *)
(***************************************************************************)
\* around both bounds of a range
RangeProbes(lower, upper) ==
    {PyInt(lower - 1), PyInt(lower), PyInt(upper), PyInt(upper + 1)}

\* for a range pair also the middle, and the lower bound as a numeric string
PairProbes(lower, upper) ==
    RangeProbes(lower, upper)
    \cup {PyInt((lower + upper) \div 2), PyStr(Str(PyInt(lower)))}

Example == <<69, 120, 97, 109, 112, 108, 101>>

NameProbes ==
    { PyStr(<<>>), PyStr(Example), PyStr([i \in 1..NameLen |-> 65]),
      PyStr([i \in 1..(NameLen + 1) |-> 65]), PyStr(<<69, 120, 42, 109, 112, 108, 101>>),
      PyStr(<<123, 32, 0, 125>>), PyInt(5) }

UnknownProbes == {PyInt(0), PyInt(255), PyInt(256), PyStr(<<49>>)}

MidiNoteProbes ==
    {PyInt(0), PyInt(127), PyInt(128), PyInt(-1), PyInt(DEFAULT_PAD_MIDI_NOTES[NumPads])}

AttrProbes(validator) ==
    CASE validator.kind = "range" -> RangeProbes(validator.lower, validator.upper)
      [] validator.kind = "name" -> NameProbes
      [] validator.kind = "pass" -> UnknownProbes

ProgramProbes(d) ==
    IF d.kind = "range" THEN RangeProbes(d.lower, d.upper) ELSE PairProbes(d.lower, d.upper)

(***************************************************************************)
(* The state machine.  pgm is the Program object the caller holds (no      *)
(* attributes before it is constructed), prev the object before the last   *)
(* call, last the last call and how it ended, nops the number of mutating  *)
(* calls made since construction, accepted whether every call so far       *)
(* returned without an exception.  A run constructs once; after that it    *)
(* works on one object, the Program, one of its Pads or one of its         *)
(* Samples, with at most MaxOps calls, its writes before its reads of      *)
(* data; the objects share no state.                                       *)
(***************************************************************************)
Call(op, i, j, attr, value, buf, r) ==
    [op |-> op, i |-> i, j |-> j, attr |-> attr, value |-> value, buf |-> buf,
     ok |-> r.ok, err |-> r.err]

Constructed == DOMAIN pgm # {}

\* the call is the first one after construction, or on the object of the last call
SameObject(op, i, j) == nops = 0 \/ (last.op = op /\ last.i = i /\ last.j = j)

CanCall(op, i, j) == Constructed /\ nops < MaxOps /\ SameObject(op, i, j)

\* a run makes its writes before its reads of data
CanWrite(op, i, j) == CanCall(op, i, j) /\ last.attr # "data"

Init ==
    /\ pgm = NewObject
    /\ prev = NewObject
    /\ last = Call("none", 0, 0, "", PyInt(0), 0, Ok(0))
    /\ nops = 0
    /\ accepted = TRUE

\* the caller's variable after pgm = Program(data_str) ended with r
Constructs(b, r) ==
    /\ pgm' = IF r.ok THEN r.val ELSE NewObject
    /\ last' = Call("Program", 0, 0, "__init__", PyInt(0), b, r)
    /\ accepted' = r.ok
    /\ prev' = pgm
    /\ nops' = 0

\* pgm = Program(data_str)
Construct(b) ==
    /\ last.op = "none"
    /\ Constructs(b, program_init(Inputs[b]))

\* a call on the constructed program ended with r, r.val being the program after it
Returns(op, i, j, attr, value, buf, r) ==
    /\ pgm' = r.val
    /\ last' = Call(op, i, j, attr, value, buf, r)
    /\ accepted' = (accepted /\ r.ok)
    /\ prev' = pgm
    /\ nops' = nops + 1

\* pgm.load(data_str) on the constructed object
Load(b) ==
    /\ CanWrite("Program", 0, 0)
    /\ Returns("Program", 0, 0, "load", PyInt(0), b, load(pgm, Inputs[b]))

WithPad(self, i, pad) == SetAttr(self, "pad_list", [self.pad_list EXCEPT ![i] = pad])

WithSample(self, i, j, sample) ==
    WithPad(self, i, SetAttr(self.pad_list[i], "sample_list",
                             [self.pad_list[i].sample_list EXCEPT ![j] = sample]))

\* the result r of a call on pad i (1-based) of self as a result for self
InPad(self, i, r) == [r EXCEPT !.val = WithPad(self, i, @)]

\* the result r of a call on sample j of pad i (1-based) of self as a result for self
InSample(self, i, j, r) == [r EXCEPT !.val = WithSample(self, i, j, @)]

\* pgm.pad_list[i].sample_list[j].<attr> = value   (i, j 0-based)
SetSampleAttr(i, j, a, value) ==
    /\ CanWrite("Sample", i, j)
    /\ i < Len(pgm.pad_list)
    /\ Returns("Sample", i, j, SampleAttrs[a].name, value, 0,
               InSample(pgm, i + 1, j + 1,
                        setter(pgm.pad_list[i + 1].sample_list[j + 1],
                               SampleAttrs[a].name, SampleAttrs[a].validator, value)))

\* pgm.pad_list[i].<attr> = value
SetPadAttr(i, a, value) ==
    /\ CanWrite("Pad", i, 0)
    /\ i < Len(pgm.pad_list)
    /\ Returns("Pad", i, 0, PadAttrs[a].name, value, 0,
               InPad(pgm, i + 1,
                     setter(pgm.pad_list[i + 1], PadAttrs[a].name, PadAttrs[a].validator,
                            value)))

\* pgm.pad_list[i].midi_note = value: a plain attribute, no property
SetMidiNote(i, value) ==
    /\ CanWrite("Pad", i, 0)
    /\ i < Len(pgm.pad_list)
    /\ Returns("Pad", i, 0, "midi_note", value, 0,
               InPad(pgm, i + 1, Ok(SetAttr(pgm.pad_list[i + 1], "midi_note", value))))

\* pgm.<attr> = value for a property of Program
SetProgramAttr(a, value) ==
    /\ CanWrite("Program", 0, 0)
    /\ Returns("Program", 0, 0, ProgramAttrs[a].name, value, 0,
               program_setter(pgm, ProgramAttrs[a], value))

\* a read of data that returned or raised as d and left the object as after
ReadResult(d, after) == [ok |-> d.ok, val |-> after, err |-> d.err]

\* pgm.pad_list[i].sample_list[j].data
ReadSampleData(i, j) ==
    /\ CanCall("Sample", i, j)
    /\ i < Len(pgm.pad_list)
    /\ Returns("Sample", i, j, "data", PyInt(0), 0,
               InSample(pgm, i + 1, j + 1,
                        ReadResult(sample_data(pgm.pad_list[i + 1].sample_list[j + 1]),
                                   sample_after_data(pgm.pad_list[i + 1].sample_list[j + 1]))))

\* pgm.pad_list[i].data
ReadPadData(i) ==
    /\ CanCall("Pad", i, 0)
    /\ i < Len(pgm.pad_list)
    /\ Returns("Pad", i, 0, "data", PyInt(0), 0,
               InPad(pgm, i + 1, ReadResult(pad_data(pgm.pad_list[i + 1]),
                                            pad_after_data(pgm.pad_list[i + 1]))))

\* pgm.data
ReadProgramData ==
    /\ CanCall("Program", 0, 0)
    /\ Returns("Program", 0, 0, "data", PyInt(0), 0,
               ReadResult(program_data(pgm), program_after_data(pgm)))

Next ==
    \/ \E b \in 1..Len(Inputs) : Construct(b)
    \/ \E b \in (1..Len(Buffers)) \cup {TruncatedInput(k) : k \in StageLengths} : Load(b)
    \/ \E i \in 0..(NumPads - 1), j \in 0..(SamplesPerPad - 1), a \in 1..Len(SampleAttrs) :
          \E value \in AttrProbes(SampleAttrs[a].validator) : SetSampleAttr(i, j, a, value)
    \/ \E i \in 0..(NumPads - 1), a \in 1..Len(PadAttrs) :
          \E value \in AttrProbes(PadAttrs[a].validator) : SetPadAttr(i, a, value)
    \/ \E i \in 0..(NumPads - 1), value \in MidiNoteProbes : SetMidiNote(i, value)
    \/ \E a \in 1..Len(ProgramAttrs) :
          \E value \in ProgramProbes(ProgramAttrs[a]) : SetProgramAttr(a, value)
    \/ \E i \in 0..(NumPads - 1), j \in 0..(SamplesPerPad - 1) : ReadSampleData(i, j)
    \/ \E i \in 0..(NumPads - 1) : ReadPadData(i)
    \/ ReadProgramData

Spec == Init /\ [][Next]_vars

(***************************************************************************)
(* Properties.  The helpers below read a buffer by its layout only.        *)
(***************************************************************************)
AttrIndex(name) == CHOOSE i \in 1..Len(ProgramAttrs) : ProgramAttrs[i].name = name

\* the (low, high) properties of the ten range pairs
RangePairs ==
    {<<ProgramAttrs[i].name, ProgramAttrs[i].partner>> :
        i \in {k \in 1..Len(ProgramAttrs) : ProgramAttrs[k].kind = "low"}}

\* the bytes of the record at off that its format declares as padding are zero
PaddingZero(st, data, off) ==
    \A p \in 1..st.size : st.fmt[st.item[p]].c = "x" => data[off + p] = 0

\* the fields of the record at off, as stored
RawFields(st, data, off) == StructUnpack(st, Slice(data, off, off + st.size)).val

\* every field of the record at off that has a range lies in it
FieldsInRange(st, attrs, data, off) ==
    \A a \in 1..Len(attrs) :
        attrs[a].kind = "range" =>
            /\ RawFields(st, data, off)[a].n >= attrs[a].lower
            /\ RawFields(st, data, off)[a].n <= attrs[a].upper

\* the validators of a record class as range descriptors
Ranges(attrs) ==
    [a \in 1..Len(attrs) |->
        [kind |-> attrs[a].validator.kind, lower |-> attrs[a].validator.lower,
         upper |-> attrs[a].validator.upper]]

\* the range of every Program property (a pair member has the range of its pair)
ProgramRanges ==
    [a \in 1..Len(ProgramAttrs) |->
        [kind |-> "range", lower |-> ProgramAttrs[a].lower, upper |-> ProgramAttrs[a].upper]]

ValidName(s) == \A k \in 1..Len(s) : s[k] \in valid_name_characters

\* every field of the buffer that has a range lies in it
AllFieldsInRange(data) ==
    /\ \A i \in 0..(NumPads - 1) :
          /\ FieldsInRange(PadFormat, Ranges(PadAttrs), data, PadBodyOffset(i))
          /\ \A j \in 0..(SamplesPerPad - 1) :
                FieldsInRange(SampleFormat, Ranges(SampleAttrs), data, SampleOffset(i, j))
    /\ FieldsInRange(MidiAndSlidersFormat, ProgramRanges, data, ProgramDataOffset)

\* every validated field of the buffer passes its validator
AllFieldsValid(data) ==
    /\ AllFieldsInRange(data)
    /\ \A i \in 0..(NumPads - 1), j \in 0..(SamplesPerPad - 1) :
          ValidName(RawFields(SampleFormat, data, SampleOffset(i, j))[1].s)

\* a buffer the round trip is claimed for: fields in range, padding zero, every
\* stored pair low <= high, pad notes below 128 and the stored note -> pad table
\* their inverse
Canonical(data) ==
    /\ Len(data) = ProgramSize
    /\ AllFieldsValid(data)
    /\ PaddingZero(HeaderFormat, data, 0)
    /\ \A i \in 0..(NumPads - 1) :
          /\ PaddingZero(PadFormat, data, PadBodyOffset(i))
          /\ \A j \in 0..(SamplesPerPad - 1) :
                PaddingZero(SampleFormat, data, SampleOffset(i, j))
    /\ PaddingZero(MidiAndSlidersFormat, data, ProgramDataOffset)
    /\ \A pr \in RangePairs :
          RawFields(MidiAndSlidersFormat, data, ProgramDataOffset)[AttrIndex(pr[1])].n
             <= RawFields(MidiAndSlidersFormat, data, ProgramDataOffset)[AttrIndex(pr[2])].n
    /\ \A i \in 1..NumPads : data[PadMidiNoteOffset + i] < NumNotes
    /\ Slice(data, MidiNotePadOffset, ProgramDataOffset)
          = StoredNotePads(Slice(data, PadMidiNoteOffset, MidiNotePadOffset))

CanonicalBuffers == {b \in 1..Len(Buffers) : Canonical(Buffers[b])}

\* the last call built or reloaded the program from a buffer and returned
Loaded == last.attr \in {"__init__", "load"} /\ last.ok

(***************************************************************************)
(* C1: a program decoded from the built-in default buffer, or from any     *)
(* valid buffer (fields in range, padding zero, pairs low <= high, note    *)
(* table the inverse of the pad notes), encodes to exactly the bytes it    *)
(* was decoded from.                                                       *)
(***************************************************************************)
ProgramRoundTrip ==
    (Loaded /\ last.buf \in CanonicalBuffers)
        => program_data(pgm) = Ok(Inputs[last.buf])

\* a program built from the edited valid file has been encoded back to it
ProgramRoundTripWitness ==
    /\ Loaded
    /\ last.buf \in CanonicalBuffers
    /\ Inputs[last.buf] # DEFAULT_PGM_DATA
    /\ pgm.pad_list[1].sample_list[1].tuning = PyInt(-3600)
    /\ program_data(pgm).ok

(***************************************************************************)
(* C2: at every moment after a load and after every setter call, whether   *)
(* it returned or raised, each of the ten range pairs has low <= high.     *)
(***************************************************************************)
RangePairInvariant ==
    Constructed =>
        \A pr \in RangePairs :
            /\ IsInt(pgm[pr[1]]) /\ IsInt(pgm[pr[2]])
            /\ pgm[pr[1]].n <= pgm[pr[2]].n

(***************************************************************************)
(* C3: a low setter that accepts the integer v leaves low = v and          *)
(* high = max(high before, v); a high setter that accepts v leaves         *)
(* high = v and low = min(low before, v).                                  *)
(***************************************************************************)
LastPairWrite ==
    /\ last.op = "Program"
    /\ \E pr \in RangePairs : last.attr \in {pr[1], pr[2]}
    /\ IsInt(last.value)
    /\ last.ok

Max(a, b) == IF a > b THEN a ELSE b

PairCorrectionRule ==
    LastPairWrite =>
        LET d == ProgramAttrs[AttrIndex(last.attr)]
            v == last.value.n
        IN  IF d.kind = "low"
            THEN /\ pgm[d.name] = PyInt(v)
                 /\ pgm[d.partner] = PyInt(Max(prev[d.partner].n, v))
            ELSE /\ pgm[d.name] = PyInt(v)
                 /\ pgm[d.partner] = PyInt(Min(prev[d.partner].n, v))

\* a high setter was given a value below low and low followed it down
PairCorrectionWitness ==
    /\ LastPairWrite
    /\ ProgramAttrs[AttrIndex(last.attr)].kind = "high"
    /\ prev[ProgramAttrs[AttrIndex(last.attr)].partner].n > last.value.n
    /\ pgm[ProgramAttrs[AttrIndex(last.attr)].partner] = last.value

(***************************************************************************)
(* C4: a write of an integer to a field with a declared range succeeds     *)
(* and stores the value when it lies in the range, both bounds included;   *)
(* otherwise it raises the range error and the program, the written field  *)
(* and (for a range pair) its partner included, is exactly as before.      *)
(***************************************************************************)
\* the object the last call was made on, in the program p
Target(p) ==
    CASE last.op = "Sample" -> p.pad_list[last.i + 1].sample_list[last.j + 1]
      [] last.op = "Pad" -> p.pad_list[last.i + 1]
      [] last.op = "Program" -> p

\* the range descriptors of the properties of the class of the last call
TargetRanges ==
    CASE last.op = "Sample" ->
            [a \in 1..Len(SampleAttrs) |-> [name |-> SampleAttrs[a].name] @@ Ranges(SampleAttrs)[a]]
      [] last.op = "Pad" ->
            [a \in 1..Len(PadAttrs) |-> [name |-> PadAttrs[a].name] @@ Ranges(PadAttrs)[a]]
      [] last.op = "Program" ->
            [a \in 1..Len(ProgramAttrs) |-> [name |-> ProgramAttrs[a].name] @@ ProgramRanges[a]]
      [] OTHER -> <<>>

\* the last call wrote an integer to a property with a declared range
LastRangeWrite ==
    /\ IsInt(last.value)
    /\ \E a \in 1..Len(TargetRanges) :
          TargetRanges[a].name = last.attr /\ TargetRanges[a].kind = "range"

LastRange == TargetRanges[CHOOSE a \in 1..Len(TargetRanges) : TargetRanges[a].name = last.attr]

BoundsInclusiveAndAtomic ==
    LastRangeWrite =>
        IF LastRange.lower <= last.value.n /\ last.value.n <= LastRange.upper
        THEN last.ok /\ Target(pgm)[last.attr] = last.value
        ELSE /\ ~last.ok
             /\ last.err = "ValueError: out of range"
             /\ pgm = prev

\* a low setter of a range pair rejected the value just above its upper bound
BoundsWitness ==
    /\ LastRangeWrite
    /\ last.op = "Program"
    /\ ProgramAttrs[AttrIndex(last.attr)].kind = "low"
    /\ last.value.n = LastRange.upper + 1
    /\ ~last.ok
    /\ pgm = prev

(***************************************************************************)
(* C5: whenever a program encodes, entry n of the encoded note -> pad      *)
(* table is 64 if no pad has MIDI note n and otherwise the highest index   *)
(* of a pad with that note, whatever table the loaded buffer held.         *)
(***************************************************************************)
NoteTable(p) ==
    [n \in 1..NumNotes |->
        IF \E i \in 1..Len(p.pad_list) : p.pad_list[i].midi_note = PyInt(n - 1)
        THEN (CHOOSE i \in 1..Len(p.pad_list) :
                 /\ p.pad_list[i].midi_note = PyInt(n - 1)
                 /\ \A k \in 1..Len(p.pad_list) :
                       p.pad_list[k].midi_note = PyInt(n - 1) => k <= i) - 1
        ELSE NoPad]

\* the pad notes can have changed only in a load or a write of midi_note
NotesTouched == Constructed /\ last.attr \in {"__init__", "load", "midi_note"}

TableRegenerated ==
    (NotesTouched /\ program_data(pgm).ok) =>
        Slice(program_data(pgm).val, MidiNotePadOffset, ProgramDataOffset) = NoteTable(pgm)

\* a pad was moved onto the note of a higher pad and the program encoded
TableWitness ==
    /\ last.attr = "midi_note"
    /\ last.ok
    /\ \E i \in 1..Len(pgm.pad_list) :
          i > last.i + 1 /\ pgm.pad_list[i].midi_note = last.value
    /\ prev.pad_list[last.i + 1].midi_note # last.value
    /\ program_data(pgm).ok

(***************************************************************************)
(* C6: constructing or loading a program from a buffer in which a field    *)
(* with a declared range holds a value outside it raises the range error;  *)
(* the constructor yields no program, the value is not clamped.            *)
(***************************************************************************)
DecodeValidates ==
    (/\ last.attr \in {"__init__", "load"}
     /\ Len(Inputs[last.buf]) = ProgramSize
     /\ ~AllFieldsInRange(Inputs[last.buf])) =>
        /\ ~last.ok
        /\ last.err = "ValueError: out of range"
        /\ (last.attr = "__init__" => ~Constructed)

\* a buffer whose first sample has level 200 was rejected by the constructor
DecodeValidatesWitness ==
    /\ last.attr = "__init__"
    /\ Len(Inputs[last.buf]) = ProgramSize
    /\ RawFields(SampleFormat, Inputs[last.buf], SampleOffset(0, 0))[2] = PyInt(200)
    /\ ~last.ok
    /\ ~Constructed

(***************************************************************************)
(* C7: the MIDI note of every pad is an integer in 0..127: a load of a     *)
(* note byte above 127 and a write of a value outside 0..127 are rejected. *)
(***************************************************************************)
MidiNoteInRange ==
    Constructed =>
        \A i \in 1..Len(pgm.pad_list) :
            HasAttr(pgm.pad_list[i], "midi_note") =>
                /\ IsInt(pgm.pad_list[i].midi_note)
                /\ pgm.pad_list[i].midi_note.n \in 0..(NumNotes - 1)

(***************************************************************************)
(* C8: after a successful load and field writes that all returned without  *)
(* an exception, Sample.data, Pad.data and Program.data each succeed and   *)
(* return 24, 164 and the full program size in bytes.                      *)
(***************************************************************************)
EncodeNeverFails ==
    (Constructed /\ accepted) =>
        /\ program_data(pgm).ok
        /\ Len(program_data(pgm).val) = ProgramSize
        /\ \A i \in 1..Len(pgm.pad_list) :
              /\ pad_data(pgm.pad_list[i]).ok
              /\ Len(pad_data(pgm.pad_list[i]).val) = pad_data_size
              /\ \A j \in 1..Len(pgm.pad_list[i].sample_list) :
                    /\ sample_data(pgm.pad_list[i].sample_list[j]).ok
                    /\ Len(sample_data(pgm.pad_list[i].sample_list[j]).val) = SampleSize

(***************************************************************************)
(* C9: a write of a sample name longer than 16 bytes raises "string too    *)
(* long"; one of at most 16 bytes with a byte outside the valid set raises *)
(* "invalid character"; any other name of k bytes is accepted and encodes  *)
(* as those k bytes followed by 16 - k NUL bytes.                          *)
(***************************************************************************)
LastNameWrite == last.op = "Sample" /\ last.attr = "name"

NameRule ==
    LastNameWrite =>
        LET s == Str(last.value)
        IN  IF Len(s) > NameLen
            THEN ~last.ok /\ last.err = "ValueError: string too long" /\ pgm = prev
            ELSE IF ~ValidName(s)
            THEN ~last.ok /\ last.err = "ValueError: invalid character" /\ pgm = prev
            ELSE /\ last.ok
                 /\ sample_data(Target(pgm)).ok
                 /\ SubSeq(sample_data(Target(pgm)).val, 1, NameLen)
                       = s \o Zeros(NameLen - Len(s))

\* "Example" was written and the sample encodes it followed by nine NUL bytes
NameRuleWitness ==
    /\ LastNameWrite
    /\ last.value = PyStr(Example)
    /\ last.ok
    /\ SubSeq(sample_data(Target(pgm)).val, 1, NameLen) = Example \o Zeros(9)

(***************************************************************************)
(* C10, as stated: an accepted name is stored normalized, exactly 16 bytes *)
(* made of the input padded with trailing NUL bytes.                       *)
(***************************************************************************)
NameNormalized ==
    (LastNameWrite /\ last.ok) =>
        Target(pgm).name
            = PyStr(Str(last.value) \o Zeros(NameLen - Len(Str(last.value))))

(***************************************************************************)
(* C10, amended: an accepted name is stored as the string of the input,    *)
(* unchanged and unpadded, of at most 16 bytes; the getter reports those   *)
(* bytes.                                                                  *)
(***************************************************************************)
NameStoredAsGiven ==
    (LastNameWrite /\ last.ok) =>
        /\ Target(pgm).name = PyStr(Str(last.value))
        /\ Len(Target(pgm).name.s) <= NameLen

\* "Example" was written and the stored name has seven bytes
NameStoredWitness ==
    /\ LastNameWrite
    /\ last.ok
    /\ last.value = PyStr(Example)
    /\ Len(Target(pgm).name.s) = 7

(***************************************************************************)
(* C11: after a load of a buffer that round-trips, one accepted write to   *)
(* a field of a Sample or of a Pad record and an encode give the original  *)
(* bytes at every offset outside the bytes of that field.                  *)
(***************************************************************************)
LastFormat == IF last.op = "Sample" THEN SampleFormat ELSE PadFormat

\* offset of the record the last call was made on
LastRecordOffset ==
    IF last.op = "Sample" THEN SampleOffset(last.i, last.j) ELSE PadBodyOffset(last.i)

\* the item of the format that holds the property the last call wrote
LastItem ==
    LastFormat.args[CHOOSE a \in 1..Len(TargetRanges) : TargetRanges[a].name = last.attr]

\* the offsets (1-based) of the bytes of the field the last call wrote
LastFieldBytes ==
    { LastRecordOffset + LastFormat.off[LastItem] + q :
        q \in 1..ItemSize(LastFormat.fmt[LastItem]) }

\* the last call is the first after the load and an accepted write to a field
\* of a Sample or Pad record
FirstFieldWrite ==
    /\ nops = 1
    /\ last.op \in {"Sample", "Pad"}
    /\ \E a \in 1..Len(TargetRanges) : TargetRanges[a].name = last.attr
    /\ last.ok

RoundTrips(d) == d.ok /\ \E b \in CanonicalBuffers : d.val = Buffers[b]

\* the encoding after is the encoding before outside the bytes in region
SameOutside(before, after, region) ==
    /\ after.ok
    /\ Len(after.val) = Len(before.val)
    /\ \A p \in 1..Len(before.val) : p \notin region => after.val[p] = before.val[p]

FrameHolds(before, after) == RoundTrips(before) => SameOutside(before, after, LastFieldBytes)

SingleFieldFrame == FirstFieldWrite => FrameHolds(program_data(prev), program_data(pgm))

(***************************************************************************)
(* C12: for the Sample record and the Pad body record, and for any buffer  *)
(* of at least the record's size whose trailing padding bytes are zero,    *)
(* decoding the buffer and encoding the result gives the bytes decoded.    *)
(* Amended: ... whose padding bytes are all zero and whose fields pass     *)
(* their validators.                                                       *)
(***************************************************************************)
\* the records a load of data decodes whole: <<format, attrs, bytes from the
\* record's offset on>>
RecordsOf(data) ==
    { <<SampleFormat, SampleAttrs, SliceFrom(data, SampleOffset(i, j))>> :
         i \in {p \in 0..(NumPads - 1) : PadOffset(p) + pad_data_size <= Len(data)},
         j \in 0..(SamplesPerPad - 1) }
    \cup
    { <<PadFormat, PadAttrs, SliceFrom(data, PadBodyOffset(i))>> :
         i \in {p \in 0..(NumPads - 1) : PadOffset(p) + pad_data_size <= Len(data)} }

\* the padding bytes at the end of the record are zero
TrailingPaddingZero(st, b) ==
    \A p \in 1..st.size :
        (\A q \in p..st.size : st.fmt[st.item[q]].c = "x") => b[p] = 0

\* every field of the record passes the validator of its property
FieldsValid(st, attrs, b) ==
    /\ FieldsInRange(st, Ranges(attrs), b, 0)
    /\ \A a \in 1..Len(attrs) :
          attrs[a].validator.kind = "name" => ValidName(RawFields(st, b, 0)[a].s)

Decoded(st, attrs, b) == unpack(NewObject, st, attrs, b)

\* decode then encode gives the first size bytes of b
RecordRoundTrips(st, attrs, b) ==
    /\ Decoded(st, attrs, b).ok
    /\ pack(Decoded(st, attrs, b).val, st, attrs) = Ok(Slice(b, 0, st.size))

Constructing == last.attr = "__init__"

RecordRoundTripTrailing ==
    Constructing =>
        \A rec \in RecordsOf(Inputs[last.buf]) :
            TrailingPaddingZero(rec[1], rec[3]) => RecordRoundTrips(rec[1], rec[2], rec[3])

RecordRoundTrip ==
    Constructing =>
        \A rec \in RecordsOf(Inputs[last.buf]) :
            (PaddingZero(rec[1], rec[3], 0) /\ FieldsValid(rec[1], rec[2], rec[3]))
                => RecordRoundTrips(rec[1], rec[2], rec[3])

\* the edited buffer was loaded: its first sample and its first pad body, each
\* longer than its record, were decoded into the program and encode to their bytes
RecordRoundTripWitness ==
    /\ Constructing /\ last.ok /\ Inputs[last.buf] = EditedData
    /\ Len(SliceFrom(EditedData, SampleOffset(0, 0))) > SampleSize
    /\ pgm.pad_list[1].sample_list[1] = Decoded(SampleFormat, SampleAttrs, SliceFrom(EditedData, SampleOffset(0, 0))).val
    /\ sample_data(pgm.pad_list[1].sample_list[1]) = Ok(Slice(EditedData, SampleOffset(0, 0), SampleOffset(0, 1)))
    /\ pack(pgm.pad_list[1], PadFormat, PadAttrs) = Ok(Slice(EditedData, PadBodyOffset(0), PadOffset(1)))
    /\ EditedData # DEFAULT_PGM_DATA

(***************************************************************************)
(* C13: the number of bytes Program.load consumes and Program.data         *)
(* returns, header 24 + 64 pads of 164 + pad notes 64 + note table 128 +   *)
(* global block 44, is 10,764 for every Program.  Amended: it is 10,756.   *)
(***************************************************************************)
\* the number of pads of a program file (the model holds NumPads of them)
SourcePads == 64

\* n bytes of the model's program, which has NumPads pads, are total bytes of a
\* program of SourcePads pads: each further pad adds its record and its note
SizeIs(n, total) == n + (SourcePads - NumPads) * (pad_data_size + 1) = total

\* the sum of the blocks in the order of the layout
BlockSum == header_size + NumPads * pad_data_size + NumPads + NumNotes + program_data_size

\* an encoding, if there is one, has the length of the blocks and the total size
SizeOf(d, total) == d.ok => (Len(d.val) = BlockSum /\ SizeIs(Len(d.val), total))

\* load consumed the whole of what it was given, or the default for ''
Consumed == IF Inputs[last.buf] = <<>> THEN Len(DEFAULT_PGM_DATA) ELSE Len(Inputs[last.buf])

TotalSize10764 ==
    /\ (Constructed /\ nops <= 1) => SizeOf(program_data(pgm), 10764)
    /\ Loaded => SizeIs(Consumed, 10764)

TotalSize10756 ==
    /\ (Constructed /\ nops <= 1) => SizeOf(program_data(pgm), 10756)
    /\ Loaded => SizeIs(Consumed, 10756)

\* the default was loaded and encoded to as many bytes as its header says
TotalSizeWitness ==
    /\ Loaded /\ last.attr = "__init__" /\ Inputs[last.buf] = DEFAULT_PGM_DATA
    /\ program_data(pgm).ok
    /\ SizeIs(Len(program_data(pgm).val), pgm.file_size.n)
    /\ pgm.file_size.n = 10756

(***************************************************************************)
(* C14: constructing a Program from a buffer of any length from 0 to one   *)
(* below the Program's size, or a Pad or a Sample from fewer than 164 or   *)
(* 24 bytes, fails with an error and produces no record.                   *)
(***************************************************************************)
\* Pad(data) and Sample(data) fail when data is shorter than their records
ShortRecordFails(data) ==
    /\ Len(data) < pad_data_size => ~pad_init(data).ok
    /\ Len(data) < SampleSize => ~sample_init(data).ok

TruncatedRejected ==
    (Constructing /\ Len(Inputs[last.buf]) < ProgramSize) =>
        /\ ~last.ok
        /\ ~Constructed
        /\ ShortRecordFails(Inputs[last.buf])

(***************************************************************************)
(* C15: a read of Program.data, Pad.data or Sample.data changes no field   *)
(* of the Program, its Pads or its Samples, every Pad keeps a sample_list  *)
(* of 4, and a second read with no write in between returns what the       *)
(* first returned.                                                         *)
(***************************************************************************)
LastRead == Constructed /\ last.attr = "data"

\* what a read of the data the last call read returns on the object self
ReadOf(self) ==
    CASE last.op = "Program" -> program_data(self)
      [] last.op = "Pad" -> pad_data(self.pad_list[last.i + 1])
      [] last.op = "Sample" -> sample_data(self.pad_list[last.i + 1].sample_list[last.j + 1])

\* the read returned or raised as first
Returned(first) == last.ok = first.ok /\ last.err = first.err

SameRead(first, second) == Returned(first) /\ second = first

LoadFailed == last.attr = "load" /\ ~last.ok

NoPartialCommit == LoadFailed => pgm = prev

(***************************************************************************)
(* C17: a call of the low or the high setter of a range pair changes at    *)
(* most the two members of that pair: the other pairs of both sliders, the *)
(* sliders' pad, unknown and parameter, midi_program_change, the header    *)
(* and all Pad and Sample state are what they were before the call.        *)
(***************************************************************************)
\* the last call was a setter of a range pair, whatever it was given and
\* however it ended
LastPairCall ==
    /\ last.op = "Program"
    /\ \E pr \in RangePairs : last.attr \in {pr[1], pr[2]}

LastPair == {last.attr, ProgramAttrs[AttrIndex(last.attr)].partner}

PairIndependence ==
    LastPairCall =>
        /\ DOMAIN pgm = DOMAIN prev
        /\ \A a \in DOMAIN pgm \ LastPair : pgm[a] = prev[a]

\* a setter of a pair of slider 2 moved both members of its pair
PairIndependenceWitness ==
    /\ LastPairCall /\ last.ok
    /\ AttrIndex(last.attr) > 14
    /\ \A a \in LastPair : pgm[a] # prev[a]
    /\ \A a \in DOMAIN pgm \ LastPair : pgm[a] = prev[a]

(***************************************************************************)
(* C18: Program.load assigns a range pair through its setters, low first,  *)
(* then high: for a buffer whose stored pair (L, H) lies within the pair's *)
(* bounds the pair is (min(L, H), H) after the load whatever it was        *)
(* before; a stored pair with L > H does not fail, is loaded as (H, H) and *)
(* is encoded with another low byte than the input's.                      *)
(***************************************************************************)
\* the fields of the MIDI and sliders block of the buffer as stored
StoredGlobals(data) == RawFields(MidiAndSlidersFormat, data, ProgramDataOffset)

\* every stage of load before the MIDI and sliders block accepts the buffer
EarlierStagesValid(data) ==
    /\ Len(data) = ProgramSize
    /\ \A i \in 0..(NumPads - 1) :
          /\ FieldsValid(PadFormat, PadAttrs, SliceFrom(data, PadBodyOffset(i)))
          /\ \A j \in 0..(SamplesPerPad - 1) :
                FieldsValid(SampleFormat, SampleAttrs, SliceFrom(data, SampleOffset(i, j)))

\* the property assignments of load reached property a: every field stored
\* before it, and its own, lies within its bounds
Assigned(data, a) ==
    \A k \in 1..a :
        /\ StoredGlobals(data)[k].n >= ProgramAttrs[k].lower
        /\ StoredGlobals(data)[k].n <= ProgramAttrs[k].upper

\* the last call decoded a buffer into a program that exists after it
Decoding == Constructed /\ last.attr \in {"__init__", "load"} /\ Inputs[last.buf] # <<>>

LoadedPair(data, pr) ==
    /\ pgm[pr[1]] = PyInt(Min(StoredGlobals(data)[AttrIndex(pr[1])].n,
                              StoredGlobals(data)[AttrIndex(pr[2])].n))
    /\ pgm[pr[2]] = StoredGlobals(data)[AttrIndex(pr[2])]

PairLoadRule ==
    (Decoding /\ EarlierStagesValid(Inputs[last.buf])) =>
        \A pr \in RangePairs :
            Assigned(Inputs[last.buf], AttrIndex(pr[2])) => LoadedPair(Inputs[last.buf], pr)

\* the pair was stored low above high, within its bounds
StoredCrossed(data, pr) ==
    /\ Assigned(data, Len(ProgramAttrs))
    /\ StoredGlobals(data)[AttrIndex(pr[1])].n > StoredGlobals(data)[AttrIndex(pr[2])].n

LowByteDiffers(d, data, pr) ==
    /\ d.ok
    /\ StoredGlobals(d.val)[AttrIndex(pr[1])] # StoredGlobals(data)[AttrIndex(pr[1])]
    /\ StoredGlobals(d.val)[AttrIndex(pr[2])] = StoredGlobals(data)[AttrIndex(pr[2])]

\* a buffer with a pair stored low above high was loaded over a program whose
\* pair had other values: the load returned, the pair is (H, H) and the
\* encoding has another low byte
PairLoadWitness ==
    /\ Decoding /\ last.attr = "load" /\ last.ok
    /\ EarlierStagesValid(Inputs[last.buf])
    /\ \E pr \in RangePairs :
          /\ StoredCrossed(Inputs[last.buf], pr)
          /\ prev[pr[2]] # StoredGlobals(Inputs[last.buf])[AttrIndex(pr[2])]
          /\ pgm[pr[1]] = pgm[pr[2]]
          /\ pgm[pr[2]] = StoredGlobals(Inputs[last.buf])[AttrIndex(pr[2])]
          /\ LowByteDiffers(program_data(pgm), Inputs[last.buf], pr)

=============================================================================
